---- MODULE Spec2Model ----
(***************************************************************************)
(* Model of pensionlisaisa.py: a Streamlit script that compares a pension, *)
(* a LISA and an ISA as retirement savings vehicles.  One run of the       *)
(* script reads the widgets and then executes its statements top to        *)
(* bottom; the model has one action per assignment block of the script.    *)
(*                                                                         *)
(* Python floats are modelled as exact rationals (sign, numerator,         *)
(* denominator) over arbitrary-precision naturals, so the arithmetic of    *)
(* numpy_financial (fv, nper, pmt) is carried out without rounding: the    *)
(* model is that of the script's formulas over the reals.  The rounding of *)
(* binary floating point, which perturbs a value in its last place and can *)
(* so move an input lying exactly on the boundary of a comparison to       *)
(* either side of it, is outside the model.  NaN and the infinities are    *)
(* distinct values.                                                        *)
(***************************************************************************)
EXTENDS Integers, Sequences, FiniteSets, Bags, TLC

(***************************************************************************)
(* Arbitrary-precision naturals: little-endian limb sequences in base      *)
(* Base, without leading (high-order) zero limbs; zero is <<>>.            *)
(***************************************************************************)
Base == 100 * 100

RECURSIVE BFromInt(_)
BFromInt(k) == IF k = 0 THEN <<>> ELSE <<k % Base>> \o BFromInt(k \div Base)

RECURSIVE BStrip(_)
BStrip(a) ==
    IF a = <<>> THEN a
    ELSE IF a[Len(a)] = 0 THEN BStrip(SubSeq(a, 1, Len(a) - 1)) ELSE a

\* The operators that pass a carry or a remainder along the limbs halve their
\* range of limbs, so that an operation on n limbs nests log n calls deep.

\* one limb and the carry out of the sum x
BLimb(x) == [q |-> <<x % Base>>, c |-> x \div Base]

\* limbs lo .. hi of a + b + c, and the carry out
RECURSIVE BAddC(_, _, _, _, _)
BAddHigh(a, b, mid, hi, low) ==
    LET high == BAddC(a, b, mid + 1, hi, low.c)
    IN  [q |-> low.q \o high.q, c |-> high.c]

BAddC(a, b, lo, hi, c) ==
    IF lo = hi
        THEN BLimb((IF lo > Len(a) THEN 0 ELSE a[lo]) + (IF lo > Len(b) THEN 0 ELSE b[lo]) + c)
        ELSE BAddHigh(a, b, (lo + hi) \div 2, hi, BAddC(a, b, lo, (lo + hi) \div 2, c))

BCarryOut(r) == IF r.c = 0 THEN r.q ELSE r.q \o BFromInt(r.c)

BAdd(a, b) ==
    IF a = <<>> THEN b
    ELSE IF b = <<>> THEN a
    ELSE BCarryOut(BAddC(a, b, 1, IF Len(a) > Len(b) THEN Len(a) ELSE Len(b), 0))

\* one limb and the borrow out of the difference x
BLimbSub(x) == IF x < 0 THEN [q |-> <<x + Base>>, c |-> 1] ELSE [q |-> <<x>>, c |-> 0]

\* limbs lo .. hi of a - b - c for a >= b, and the borrow out
RECURSIVE BSubC(_, _, _, _, _)
BSubHigh(a, b, mid, hi, low) ==
    LET high == BSubC(a, b, mid + 1, hi, low.c)
    IN  [q |-> low.q \o high.q, c |-> high.c]

BSubC(a, b, lo, hi, c) ==
    IF lo = hi
        THEN BLimbSub(a[lo] - (IF lo > Len(b) THEN 0 ELSE b[lo]) - c)
        ELSE BSubHigh(a, b, (lo + hi) \div 2, hi, BSubC(a, b, lo, (lo + hi) \div 2, c))

BSub(a, b) == IF b = <<>> THEN a ELSE BStrip(BSubC(a, b, 1, Len(a), 0).q)

\* -1, 0, 1 as a < b, a = b, a > b on the limbs lo .. hi, the high limbs first
RECURSIVE BCmpAt(_, _, _, _)
BCmpLow(a, b, lo, mid, high) == IF high # 0 THEN high ELSE BCmpAt(a, b, lo, mid)

BCmpAt(a, b, lo, hi) ==
    IF lo = hi
        THEN (IF a[lo] < b[lo] THEN -1 ELSE IF a[lo] > b[lo] THEN 1 ELSE 0)
        ELSE BCmpLow(a, b, lo, (lo + hi) \div 2, BCmpAt(a, b, (lo + hi) \div 2 + 1, hi))

BCmp(a, b) ==
    IF Len(a) < Len(b) THEN -1
    ELSE IF Len(a) > Len(b) THEN 1
    ELSE IF a = <<>> THEN 0
    ELSE BCmpAt(a, b, 1, Len(a))

\* column k of the schoolbook product of a and b: the sum of a[i] * b[k + 1 - i];
\* the sum is taken as the cardinality of a bag (whose counts must be positive)
BMulColumn(a, b, k) ==
    LET lo == IF k > Len(b) THEN k + 1 - Len(b) ELSE 1
        hi == IF k > Len(a) THEN Len(a) ELSE k
    IN  BagCardinality([i \in lo..hi |-> a[i] * b[k + 1 - i] + 1]) - (hi - lo + 1)

\* limbs lo .. hi of the columns c with the carry cy brought in, and the carry out
RECURSIVE BCarry(_, _, _, _)
BCarryHigh(c, mid, hi, low) ==
    LET high == BCarry(c, mid + 1, hi, low.c)
    IN  [q |-> low.q \o high.q, c |-> high.c]

BCarry(c, lo, hi, cy) ==
    IF lo = hi THEN BLimb(c[lo] + cy)
    ELSE BCarryHigh(c, (lo + hi) \div 2, hi, BCarry(c, lo, (lo + hi) \div 2, cy))

\* a column holds at most ColumnLimbs products, so that its sum stays below 2^31
ColumnLimbs == 3 * 7

\* a * b for a, b # 0, the limbs of a taken ColumnLimbs at a time
RECURSIVE BMulChunks(_, _)
BMulChunks(a, b) ==
    IF Len(a) <= ColumnLimbs
        THEN BCarryOut(BCarry([k \in 1..(Len(a) + Len(b) - 1) |-> BMulColumn(a, b, k)],
                              1, Len(a) + Len(b) - 1, 0))
        ELSE BAdd(BMulChunks(SubSeq(a, 1, ColumnLimbs), b),
                  [i \in 1..ColumnLimbs |-> 0]
                      \o BMulChunks(SubSeq(a, ColumnLimbs + 1, Len(a)), b))

BMul(a, b) ==
    IF a = <<>> \/ b = <<>> THEN <<>>
    ELSE IF a = <<1>> THEN b
    ELSE IF b = <<1>> THEN a
    ELSE BMulChunks(a, b)

\* quotient and remainder of r * Base^(hi - lo + 1) + the limbs lo .. hi of a by a
\* single limb k > 0, r < k: the high limbs first, whose remainder (always
\* below k) is taken before the low limbs are entered
RECURSIVE BDivSmallAt(_, _, _, _, _)
BDivSmallLimb(x, k) == [q |-> <<x \div k>>, r |-> x % k]

BDivSmallLow(a, k, lo, mid, high) ==
    LET low == BDivSmallAt(a, k, lo, mid, high.r)
    IN  IF high.r < k THEN [q |-> low.q \o high.q, r |-> low.r] ELSE high

BDivSmallAt(a, k, lo, hi, r) ==
    IF lo = hi THEN BDivSmallLimb(r * Base + a[lo], k)
    ELSE BDivSmallLow(a, k, lo, (lo + hi) \div 2,
                      BDivSmallAt(a, k, (lo + hi) \div 2 + 1, hi, r))

BDivSmall(a, k) ==
    IF a = <<>> THEN [q |-> <<>>, r |-> 0]
    ELSE LET res == BDivSmallAt(a, k, 1, Len(a), 0) IN [q |-> BStrip(res.q), r |-> res.r]

\* a mod k for a single limb k > 0
RECURSIVE BModAt(_, _, _, _, _)
BModLow(a, k, lo, mid, high) == IF high < k THEN BModAt(a, k, lo, mid, high) ELSE high

BModAt(a, k, lo, hi, r) ==
    IF lo = hi THEN (r * Base + a[lo]) % k
    ELSE BModLow(a, k, lo, (lo + hi) \div 2, BModAt(a, k, (lo + hi) \div 2 + 1, hi, r))

BMod(a, k) == IF a = <<>> THEN 0 ELSE BModAt(a, k, 1, Len(a), 0)

RECURSIVE Gcd(_, _)
Gcd(a, b) == IF b = 0 THEN a ELSE Gcd(b, a % b)

(***************************************************************************)
(* Exact rationals: [s |-> sign, n |-> numerator, d |-> denominator > 0].  *)
(* After every operation the common factors that are easy to find are      *)
(* cancelled: all of them when numerator and denominator are single limbs, *)
(* those made of the primes of Smooth1 and Smooth2 otherwise.  This only   *)
(* reduces the fraction, the value is the same; equality of rationals is   *)
(* REq (cross-multiplication), never "=".                                  *)
(***************************************************************************)
Smooth1 == 2048 * 81
Smooth2 == 25 * 7 * 17 * 29

\* n / d with the common factors made of the primes of k cancelled, and then
\* those of Smooth2 when k is Smooth1
RECURSIVE RCancelBy(_, _, _)
RCancelStep(n, d, k, g) ==
    IF g # 1 THEN RCancelBy(BDivSmall(n, g).q, BDivSmall(d, g).q, k)
    ELSE IF k = Smooth1 THEN RCancelBy(n, d, Smooth2)
    ELSE <<n, d>>

RCancelGcd(n, d, k, gn) == RCancelStep(n, d, k, IF gn = 1 THEN 1 ELSE Gcd(gn, BMod(d, k)))

RCancelBy(n, d, k) == RCancelGcd(n, d, k, Gcd(k, BMod(n, k)))

RCancelLimb(a, b, g) == <<(<<a \div g>>), (<<b \div g>>)>>

RCancel(n, d) ==
    IF n = <<1>> \/ d = <<1>> THEN <<n, d>>
    ELSE IF Len(n) = 1 /\ Len(d) = 1 THEN RCancelLimb(n[1], d[1], Gcd(n[1], d[1]))
    ELSE RCancelBy(n, d, Smooth1)

\* the rational of sign s whose numerator and denominator are the pair c
RFrom(s, c) == [s |-> s, n |-> c[1], d |-> c[2]]

RMake(s, n, d) ==
    IF n = <<>> \/ s = 0 THEN [s |-> 0, n |-> <<>>, d |-> <<1>>]
    ELSE RFrom(s, RCancel(n, d))

RInt(k) ==
    IF k = 0 THEN [s |-> 0, n |-> <<>>, d |-> <<1>>]
    ELSE IF k > 0 THEN [s |-> 1, n |-> BFromInt(k), d |-> <<1>>]
    ELSE [s |-> -1, n |-> BFromInt(-k), d |-> <<1>>]

RFracOver(a, b, g) == [s |-> 1, n |-> BFromInt(a \div g), d |-> BFromInt(b \div g)]

\* the decimal literal a / b (a >= 0, b > 0), e.g. 0.2 is RFrac(2, 10)
RFrac(a, b) ==
    IF a = 0 THEN [s |-> 0, n |-> <<>>, d |-> <<1>>]
    ELSE RFracOver(a, b, Gcd(a, b))

RZero == [s |-> 0, n |-> <<>>, d |-> <<1>>]
ROne == [s |-> 1, n |-> <<1>>, d |-> <<1>>]

RNeg(x) == [s |-> -x.s, n |-> x.n, d |-> x.d]

RAbs(x) == [s |-> IF x.s = 0 THEN 0 ELSE 1, n |-> x.n, d |-> x.d]

\* 1 / x for x # 0
RInv(x) == [s |-> x.s, n |-> x.d, d |-> x.n]

\* c1 and c2 are the numerator of each factor cancelled against the denominator
\* of the other
RCross(s, c1, c2) == [s |-> s, n |-> BMul(c1[1], c2[1]), d |-> BMul(c2[2], c1[2])]

RMul(x, y) ==
    IF x.s = 0 \/ y.s = 0 THEN RZero
    ELSE RCross(x.s * y.s, RCancel(x.n, y.d), RCancel(y.n, x.d))

\* x / y for y # 0
RDiv(x, y) == RMul(x, RInv(y))

\* sx * a / d + sy * b / d, where cmp compares a with b
RAddOver(sx, a, sy, b, d, cmp) ==
    IF sx # sy /\ cmp = 0 THEN RZero
    ELSE RMake(IF sx = sy \/ cmp > 0 THEN sx ELSE sy,
               IF sx = sy THEN BAdd(a, b) ELSE IF cmp > 0 THEN BSub(a, b) ELSE BSub(b, a),
               d)

RAddScaled(sx, a, sy, b, d) == RAddOver(sx, a, sy, b, d, BCmp(a, b))

\* c is the pair of denominators with their common factors cancelled
RAddCancelled(x, y, c) ==
    RAddScaled(x.s, BMul(x.n, c[2]), y.s, BMul(y.n, c[1]), BMul(x.d, c[2]))

\* x + y over the least common denominator that RCancel finds
RAdd(x, y) ==
    IF x.s = 0 THEN y
    ELSE IF y.s = 0 THEN x
    ELSE RAddCancelled(x, y, RCancel(x.d, y.d))

RSub(x, y) == RAdd(x, RNeg(y))

RCmpCancelled(x, y, c) == x.s * BCmp(BMul(x.n, c[2]), BMul(y.n, c[1]))

\* -1, 0, 1 as x < y, x = y, x > y
RCmp(x, y) ==
    IF x.s # y.s THEN (IF x.s < y.s THEN -1 ELSE 1)
    ELSE IF x.s = 0 THEN 0
    ELSE RCmpCancelled(x, y, RCancel(x.d, y.d))

REq(x, y) == x = y \/ RCmp(x, y) = 0
RLe(x, y) == RCmp(x, y) <= 0
RLt(x, y) == RCmp(x, y) < 0

BSquare(a) == BMul(a, a)

\* a ** n by repeated squaring
RECURSIVE BPow(_, _)
BPow(a, n) ==
    IF n = 0 THEN <<1>>
    ELSE IF n % 2 = 0 THEN BSquare(BPow(a, n \div 2))
    ELSE BMul(a, BPow(a, n - 1))

\* x ** n for a natural n
RPow(x, n) ==
    IF n = 0 THEN ROne
    ELSE IF x.s = 0 THEN RZero
    ELSE [s |-> IF x.s = -1 /\ n % 2 = 1 THEN -1 ELSE 1,
          n |-> BPow(x.n, n), d |-> BPow(x.d, n)]

(***************************************************************************)
(* numpy_financial, with when = 'end' (0).                                 *)
(***************************************************************************)
when == RZero

\* fv with payments at the beginning of each period (when = 'begin')
fvBegin(rate, nper, pmt, pv) ==
    LET temp == RPow(RAdd(ROne, rate), nper)
        fact == IF REq(rate, RZero) THEN RInt(nper)
                ELSE RDiv(RMul(RAdd(ROne, rate), RSub(temp, ROne)), rate)
    IN  [i \in 1..Len(pmt) |-> RNeg(RAdd(RMul(pv[i], temp), RMul(pmt[i], fact)))]

\* fv whose zero-rate case counts a single payment
fvZeroRateOnePayment(rate, nper, pmt, pv) ==
    LET temp == RPow(RAdd(ROne, rate), nper)
        fact == IF REq(rate, RZero) THEN ROne
                ELSE RDiv(RMul(RAdd(ROne, RMul(rate, when)), RSub(temp, ROne)), rate)
    IN  [i \in 1..Len(pmt) |-> RNeg(RAdd(RMul(pv[i], temp), RMul(pmt[i], fact)))]

\* npf.fv(rate, nper, pmt, pv) for scalars rate and nper and arrays pmt and pv of
\* one length: temp and fact are computed once and applied to every element
fv(rate, nper, pmt, pv) ==
    LET temp == RPow(RAdd(ROne, rate), nper)
        fact == IF REq(rate, RZero) THEN RInt(nper)
                ELSE RDiv(RMul(RAdd(ROne, RMul(rate, when)), RSub(temp, ROne)), rate)
    IN  [i \in 1..Len(pmt) |-> RNeg(RAdd(RMul(pv[i], temp), RMul(pmt[i], fact)))]

(***************************************************************************)
(* A float that need not be a finite number: [k |-> "num", v |-> r] is the *)
(* finite r; [k |-> "log", arg |-> a, base |-> b] is log(a) / log(b) for   *)
(* a > 0, b > 1; "inf", "-inf" and "nan" are the IEEE specials.  A NaN     *)
(* carries the operation that produced it.                                 *)
(***************************************************************************)
Num(r) == [k |-> "num", v |-> r]
NaN(why) == [k |-> "nan", why |-> why]
Inf(sgn) == [k |-> IF sgn > 0 THEN "inf" ELSE "-inf"]

\* x / y of two finite floats under numpy's default error state
FDiv(x, y) ==
    IF y.s # 0 THEN Num(RDiv(x, y))
    ELSE IF x.s = 0 THEN NaN("0/0")
    ELSE Inf(x.s)

\* np.log(a) / np.log(base), base > 1
FLogRatio(a, base) ==
    IF a.k = "nan" THEN a
    ELSE IF a.k = "-inf" THEN NaN("log(-inf)")
    ELSE IF a.k = "inf" THEN Inf(1)
    ELSE IF a.v.s < 0 THEN NaN("log(negative)")
    ELSE IF a.v.s = 0 THEN Inf(-1)
    ELSE [k |-> "log", arg |-> a.v, base |-> base]

\* nper without the zero-rate case: z = pmt / 0 is -inf, and -inf / -inf is NaN
nperNoZeroRate(rate, pmt, pv) ==
    LET fv0 == RZero
    IN  IF REq(rate, RZero) THEN NaN("inf/inf")
        ELSE LET z == RDiv(RMul(pmt, RAdd(ROne, RMul(rate, when))), rate)
             IN  FLogRatio(FDiv(RAdd(RNeg(fv0), z), RAdd(pv, z)), RAdd(ROne, rate))

\* nper with payments at the beginning of each period (when = 'begin')
nperBegin(rate, pmt, pv) ==
    LET fv0 == RZero
    IN  IF REq(rate, RZero) THEN FDiv(RAdd(RNeg(fv0), pv), pmt)
        ELSE LET z == RDiv(RMul(pmt, RAdd(ROne, rate)), rate)
             IN  FLogRatio(FDiv(RAdd(RNeg(fv0), z), RAdd(pv, z)), RAdd(ROne, rate))

\* npf.nper(rate, pmt, pv), fv = 0
nper(rate, pmt, pv) ==
    LET fv0 == RZero
    IN  IF REq(rate, RZero) THEN FDiv(RAdd(RNeg(fv0), pv), pmt)
        ELSE LET z == RDiv(RMul(pmt, RAdd(ROne, RMul(rate, when))), rate)
             IN  FLogRatio(FDiv(RAdd(RNeg(fv0), z), RAdd(pv, z)), RAdd(ROne, rate))

\* npf.fv(rate, n, pmt, pv) of scalars at a duration n that nper returned, a real
\* number of periods: (1 + rate) ** n is arg for n = log(arg) / log(1 + rate),
\* and 1 at rate 0, where n is the finite number n.v
fvAtDuration(rate, n, pmt, pv) ==
    LET temp == IF n.k = "log" THEN n.arg ELSE ROne
        fact == IF REq(rate, RZero) THEN n.v
                ELSE RDiv(RMul(RAdd(ROne, RMul(rate, when)), RSub(temp, ROne)), rate)
    IN  RNeg(RAdd(RMul(pv, temp), RMul(pmt, fact)))

\* np.zeros(n)
Zeros(n) == [i \in 1..n |-> RZero]

\* FAbs that leaves the sign as it is
FAbsNot(x) == x

\* abs() of a float
FAbs(x) ==
    IF x.k = "num" THEN Num(RAbs(x.v))
    ELSE IF x.k = "log" THEN
        (IF RLt(x.arg, ROne) THEN [k |-> "log", arg |-> RDiv(ROne, x.arg), base |-> x.base]
                             ELSE x)
    ELSE IF x.k = "-inf" THEN Inf(1)
    ELSE x

\* np.isnan
isnan(x) == x.k = "nan"

(***************************************************************************)
(* The script.                                                             *)
(***************************************************************************)
brt_tax_rate == RFrac(2, 10)
hrt_tax_rate == RFrac(4, 10)
brt_ni_rate == RFrac(8, 100)
hrt_ni_rate == RFrac(2, 100)

retirement_vehicles == <<"pension", "LISA", "ISA">>
tax_bands == {"BRT", "HRT"}

\* Bounds of the widget values explored
MaxYears == 2
MaxDuration == 1
Deposits == {100, 200}
Withdrawals == {100, 200}
GrowthRates == {0, 100}

VARIABLES
    pc,
    include_lisa, monthly_deposit, salary_sacrifice, current_tax, retirement_tax,
    retirement_age, growth_rate,
    retirement_monthly_withdrawal, retirement_growth_rate, retirement_duration,
    pension_monthly_net_deposit, lisa_monthly_deposit, retirement_fvs,
    pension_monthly_net_withdrawal, retirement_withdrawal_durations,
    written,
    retirement_withdrawal_pmt,
    accumulation_df, drawdown_df, schedule_df,
    show_detailed_lisa,
    retirement_fvs_10_years_less, retirement_fvs_10_years_less_at_age,
    retirement_withdrawal_durations_10_years_less,
    retirement_withdrawal_pmt_10_years_less,
    schedule_10_years_less_df, written_lisa,
    written_pension, pension_schedule_df, pension_columns_to_show

inputs == <<include_lisa, monthly_deposit, salary_sacrifice, current_tax, retirement_tax,
            retirement_age, growth_rate,
            retirement_monthly_withdrawal, retirement_growth_rate, retirement_duration,
            show_detailed_lisa>>

\* what the LISA tab computes and writes under its toggle (lines 707-877)
lisa_vars == <<retirement_fvs_10_years_less, retirement_fvs_10_years_less_at_age,
               retirement_withdrawal_durations_10_years_less,
               retirement_withdrawal_pmt_10_years_less,
               schedule_10_years_less_df, written_lisa>>

\* what the pension tab writes and shows (lines 581-632)
pension_vars == <<written_pension, pension_schedule_df, pension_columns_to_show>>

vars == <<pc, inputs, lisa_vars, pension_vars,
          pension_monthly_net_deposit, lisa_monthly_deposit, retirement_fvs,
          pension_monthly_net_withdrawal, retirement_withdrawal_durations,
          written, retirement_withdrawal_pmt,
          accumulation_df, drawdown_df, schedule_df>>

\* The statements of the script in execution order
Stages == <<"deposits", "retirement_fvs", "withdrawal", "durations", "write_summary",
            "pmt", "accumulation_df", "drawdown_df", "schedule_df", "done",
            "pension_schedule_df", "lisa_tab", "durations_10_years_less", "pmt_10_years_less", "schedule_10_years_less_df",
            "lisa_done">>

StageNo(st) == CHOOSE i \in 1..Len(Stages) : Stages[i] = st

\* the statement st has been executed
Past(st) == StageNo(pc) > StageNo(st)

\* growth_rate / 100 / 12
PeriodicRate(g) == RDiv(RDiv(RInt(g), RInt(100)), RInt(12))

\* The widgets (lines 71-177 and 223-255): every st.number_input and st.radio
\* returns a value within its declared range.
Init ==
    /\ pc = "deposits"
    /\ include_lisa \in BOOLEAN
    /\ monthly_deposit \in Deposits
    /\ salary_sacrifice \in {"Yes", "No"}
    /\ current_tax \in tax_bands
    /\ retirement_tax \in tax_bands
    /\ retirement_age \in 1..MaxYears
    /\ growth_rate \in GrowthRates
    /\ retirement_monthly_withdrawal \in Withdrawals
    /\ retirement_growth_rate \in GrowthRates
    /\ retirement_duration \in 1..MaxDuration
    /\ pension_monthly_net_deposit = RZero
    /\ lisa_monthly_deposit = RZero
    /\ retirement_fvs = <<>>
    /\ pension_monthly_net_withdrawal = RZero
    /\ retirement_withdrawal_durations = <<>>
    /\ written = <<>>
    /\ retirement_withdrawal_pmt = <<>>
    /\ accumulation_df = <<>>
    /\ drawdown_df = <<>>
    /\ schedule_df = <<>>
    /\ show_detailed_lisa = FALSE
    /\ retirement_fvs_10_years_less = <<>>
    /\ retirement_fvs_10_years_less_at_age = <<>>
    /\ retirement_withdrawal_durations_10_years_less = <<>>
    /\ retirement_withdrawal_pmt_10_years_less = <<>>
    /\ schedule_10_years_less_df = <<>>
    /\ written_lisa = <<>>
    /\ written_pension = <<>>
    /\ pension_schedule_df = <<>>
    /\ pension_columns_to_show = <<>>

\* PensionDeposit with the basic-rate NI relief on the higher-rate branch
PensionDepositBasicNi(net, tax, ss) ==
    IF tax = "BRT" /\ ss = "Yes"
        THEN RDiv(RInt(net), RSub(RSub(ROne, brt_tax_rate), brt_ni_rate))
    ELSE IF tax = "BRT" /\ ss = "No"
        THEN RDiv(RInt(net), RSub(ROne, brt_tax_rate))
    ELSE IF tax = "HRT" /\ ss = "Yes"
        THEN RDiv(RInt(net), RSub(RSub(ROne, hrt_tax_rate), brt_ni_rate))
    ELSE RDiv(RInt(net), RSub(ROne, hrt_tax_rate))

\* lines 190-197
PensionDeposit(net, tax, ss) ==
    IF tax = "BRT" /\ ss = "Yes"
        THEN RDiv(RInt(net), RSub(RSub(ROne, brt_tax_rate), brt_ni_rate))
    ELSE IF tax = "BRT" /\ ss = "No"
        THEN RDiv(RInt(net), RSub(ROne, brt_tax_rate))
    ELSE IF tax = "HRT" /\ ss = "Yes"
        THEN RDiv(RInt(net), RSub(RSub(ROne, hrt_tax_rate), hrt_ni_rate))
    ELSE RDiv(RInt(net), RSub(ROne, hrt_tax_rate))

\* LisaDeposit with the bonus taken as 20% of the contribution
LisaDepositBonus20(net) == RMul(RInt(net), RFrac(120, 100))

\* LisaDeposit without the government bonus
LisaDepositNoBonus(net) == RInt(net)

\* line 203
LisaDeposit(net) == RMul(RInt(net), RFrac(125, 100))

\* lines 190-203
ComputeDeposits ==
    /\ pc = "deposits"
    /\ pension_monthly_net_deposit' =
           PensionDeposit(monthly_deposit, current_tax, salary_sacrifice)
    /\ lisa_monthly_deposit' = LisaDeposit(monthly_deposit)
    /\ pc' = "retirement_fvs"
    /\ UNCHANGED <<inputs, lisa_vars, pension_vars, retirement_fvs, pension_monthly_net_withdrawal,
                   retirement_withdrawal_durations, written, retirement_withdrawal_pmt,
                   accumulation_df, drawdown_df, schedule_df>>

\* RetirementFvs one period short
RetirementFvsShort(g, years, deposits) ==
    LET f == fv(PeriodicRate(g), years * 12 - 1, deposits, Zeros(3))
    IN  [i \in 1..3 |-> RNeg(f[i])]

\* RetirementFvs keeping npf.fv's sign
RetirementFvsSigned(g, years, deposits) ==
    fv(PeriodicRate(g), years * 12, deposits, Zeros(3))

\* lines 206-211: -npf.fv over the three deposits
RetirementFvs(g, years, deposits) ==
    LET f == fv(PeriodicRate(g), years * 12, deposits, Zeros(3))
    IN  [i \in 1..3 |-> RNeg(f[i])]

ComputeRetirementFvs ==
    /\ pc = "retirement_fvs"
    /\ retirement_fvs' =
           RetirementFvs(growth_rate, retirement_age,
                         <<pension_monthly_net_deposit, lisa_monthly_deposit,
                           RInt(monthly_deposit)>>)
    /\ pc' = "withdrawal"
    /\ UNCHANGED <<inputs, lisa_vars, pension_vars, pension_monthly_net_deposit, lisa_monthly_deposit,
                   pension_monthly_net_withdrawal,
                   retirement_withdrawal_durations, written, retirement_withdrawal_pmt,
                   accumulation_df, drawdown_df, schedule_df>>

\* PensionWithdrawal with the whole withdrawal taxed
PensionWithdrawalAllTaxed(net, tax) ==
    IF tax = "BRT"
        THEN RDiv(RInt(net), RSub(ROne, brt_tax_rate))
        ELSE RDiv(RInt(net), RSub(ROne, hrt_tax_rate))

\* lines 261-264
PensionWithdrawal(net, tax) ==
    IF tax = "BRT"
        THEN RDiv(RInt(net), RSub(ROne, RMul(RFrac(75, 100), brt_tax_rate)))
        ELSE RDiv(RInt(net), RSub(ROne, RMul(RFrac(75, 100), hrt_tax_rate)))

ComputeWithdrawal ==
    /\ pc = "withdrawal"
    /\ pension_monthly_net_withdrawal' =
           PensionWithdrawal(retirement_monthly_withdrawal, retirement_tax)
    /\ pc' = "durations"
    /\ UNCHANGED <<inputs, lisa_vars, pension_vars, pension_monthly_net_deposit, lisa_monthly_deposit,
                   retirement_fvs,
                   retirement_withdrawal_durations, written, retirement_withdrawal_pmt,
                   accumulation_df, drawdown_df, schedule_df>>

\* WithdrawalDurations with the withdrawals passed as payments into the fund
WithdrawalDurationsPaidIn(g, withdrawals, fvs) ==
    [i \in 1..3 |-> FAbs(nper(PeriodicRate(g), withdrawals[i], fvs[i]))]

\* lines 271-275 (and 774-778): abs(npf.nper(rate, -withdrawals, fvs))
WithdrawalDurations(g, withdrawals, fvs) ==
    [i \in 1..3 |-> FAbs(nper(PeriodicRate(g), RNeg(withdrawals[i]), fvs[i]))]

\* the gross withdrawals per vehicle (lines 273, 386-388)
GrossWithdrawals ==
    <<pension_monthly_net_withdrawal, RInt(retirement_monthly_withdrawal),
      RInt(retirement_monthly_withdrawal)>>

ComputeDurations ==
    /\ pc = "durations"
    /\ retirement_withdrawal_durations' =
           WithdrawalDurations(retirement_growth_rate, GrossWithdrawals, retirement_fvs)
    /\ pc' = "write_summary"
    /\ UNCHANGED <<inputs, lisa_vars, pension_vars, pension_monthly_net_deposit, lisa_monthly_deposit,
                   retirement_fvs, pension_monthly_net_withdrawal,
                   written, retirement_withdrawal_pmt,
                   accumulation_df, drawdown_df, schedule_df>>

\* Shown with a line for every vehicle
ShownAll(lisa) == <<1, 2, 3>>

\* the vehicles a summary loop writes a line for (lines 281-285, 305-311, 329-333)
Shown(lisa) == IF lisa THEN <<1, 2, 3>> ELSE <<1, 3>>

\* -1, 0, 1 as the finite duration d >= 0 is below, at, above t / 2 months:
\* log(arg) / log(base) against t / 2 is arg * arg against base ** t
CmpHalfMonths(d, t) ==
    IF t < 0 THEN 1
    ELSE IF d.k = "num" THEN RCmp(d.v, RFrac(t, 2))
    ELSE RCmp(RMul(d.arg, d.arg), RPow(d.base, t))

\* a number n >= hi, found by doubling, with d below (a + b * n) / 2 months
RECURSIVE Above(_, _, _, _)
Above(d, a, b, hi) ==
    IF CmpHalfMonths(d, a + b * hi) < 0 THEN hi ELSE Above(d, a, b, 2 * hi)

\* the largest n in lo .. hi - 1 with d at least (a + b * n) / 2 months, found
\* by bisection
RECURSIVE Largest(_, _, _, _, _)
Largest(d, a, b, lo, hi) ==
    IF hi = lo + 1 THEN lo
    ELSE IF CmpHalfMonths(d, a + b * ((lo + hi) \div 2)) < 0
        THEN Largest(d, a, b, lo, (lo + hi) \div 2)
        ELSE Largest(d, a, b, (lo + hi) \div 2, hi)

\* d // 12, the whole years in d months
FloorDiv12(d) == Largest(d, 0, 24, 0, Above(d, 0, 24, 1))

\* the integer nearest to x, given the largest n with n - 1/2 <= x: a tie
\* x = n - 1/2 goes to the even one of n - 1 and n
HalfEven(n, tie) == IF tie /\ n % 2 = 1 THEN n - 1 ELSE n

\* "{:.0f}".format((d - off) / unit): the nearest integer, a tie going to the
\* even one
Format0fOf(d, off, unit, n) ==
    HalfEven(n, n > 0 /\ CmpHalfMonths(d, 2 * off + unit * (2 * n - 1)) = 0)

Format0f(d, off, unit) ==
    Format0fOf(d, off, unit,
               Largest(d, 2 * off - unit, 2 * unit, 0, Above(d, 2 * off - unit, 2 * unit, 1)))

\* "{:.0f}".format(d / 12 % 1 * 12), d / 12 % 1 * 12 being d less its whole years
FormatMonths(d) == Format0f(d, 12 * FloorDiv12(d), 1)

\* lines 308-311: one line of the duration summary; the years are d // 12, a
\* whole number that "{:.0f}" prints as it is
DurationLine(idx, d) ==
    IF isnan(d)
        THEN [what |-> "duration", vehicle |-> retirement_vehicles[idx], text |-> "Forever"]
        ELSE [what |-> "duration", vehicle |-> retirement_vehicles[idx],
              text |-> "years and months", value |-> d,
              years |-> FloorDiv12(d), months |-> FormatMonths(d)]

\* lines 784-787: the same line of the truncated summary; the years are
\* "{:.0f}".format(d / 12)
DurationLine10YearsLess(idx, d) ==
    IF isnan(d)
        THEN [what |-> "duration", vehicle |-> retirement_vehicles[idx], text |-> "Forever"]
        ELSE [what |-> "duration", vehicle |-> retirement_vehicles[idx],
              text |-> "years and months", value |-> d,
              years |-> Format0f(d, 0, 12), months |-> FormatMonths(d)]

\* lines 281-285
FvLine(idx, v) == [what |-> "fv", vehicle |-> retirement_vehicles[idx], value |-> v]

\* lines 292-297
WithdrawLine(idx, v) == [what |-> "withdraw", vehicle |-> retirement_vehicles[idx], value |-> v]

\* lines 279-311: what st.write puts on the page
WriteSummary ==
    /\ pc = "write_summary"
    /\ written' =
           LET sh == Shown(include_lisa)
           IN  [j \in 1..Len(sh) |-> FvLine(sh[j], retirement_fvs[sh[j]])]
               \o [j \in 1..Len(sh) |-> WithdrawLine(sh[j], GrossWithdrawals[sh[j]])]
               \o [j \in 1..Len(sh) |->
                      DurationLine(sh[j], retirement_withdrawal_durations[sh[j]])]
    /\ pc' = "pmt"
    /\ UNCHANGED <<inputs, lisa_vars, pension_vars, pension_monthly_net_deposit, lisa_monthly_deposit,
                   retirement_fvs, pension_monthly_net_withdrawal,
                   retirement_withdrawal_durations, retirement_withdrawal_pmt,
                   accumulation_df, drawdown_df, schedule_df>>

\* pmt spreading the fund over one period more
pmtOneMore(rate, periods, pv) ==
    LET temp == RPow(RAdd(ROne, rate), periods + 1)
        fact == IF REq(rate, RZero) THEN RInt(periods + 1)
                ELSE RDiv(RSub(temp, ROne), rate)
    IN  [i \in 1..Len(pv) |-> RDiv(RNeg(RMul(pv[i], temp)), fact)]

\* npf.pmt(rate, nper, pv), fv = 0, for scalars rate and nper and an array pv
pmt(rate, periods, pv) ==
    LET fv0 == RZero
        temp == RPow(RAdd(ROne, rate), periods)
        mask == REq(rate, RZero)
        masked_rate == IF mask THEN ROne ELSE rate
        fact == IF mask THEN RInt(periods)
                ELSE RDiv(RMul(RAdd(ROne, RMul(masked_rate, when)), RSub(temp, ROne)),
                          masked_rate)
    IN  [i \in 1..Len(pv) |-> RDiv(RNeg(RAdd(fv0, RMul(pv[i], temp))), fact)]

\* lines 315-319 (and 790-794)
WithdrawalPmt(g, years, fvs) ==
    LET p == pmt(PeriodicRate(g), years * 12, fvs)
    IN  [i \in 1..3 |-> RNeg(p[i])]

\* PensionPmtNet with the whole payment taxed
PensionPmtNetAllTaxed(p, tax) ==
    RMul(p, IF tax = "BRT" THEN RSub(ROne, brt_tax_rate) ELSE RSub(ROne, hrt_tax_rate))

\* lines 323 (and 798): the pension payment after tax
PensionPmtNet(p, tax) ==
    RAdd(RMul(p, RFrac(25, 100)),
         RMul(RMul(p, RFrac(75, 100)),
              IF tax = "BRT" THEN RSub(ROne, brt_tax_rate) ELSE RSub(ROne, hrt_tax_rate)))

\* lines 329-333
PmtLine(idx, v) == [what |-> "pmt", vehicle |-> retirement_vehicles[idx], value |-> v]

\* lines 315-333
ComputePmt ==
    /\ pc = "pmt"
    /\ retirement_withdrawal_pmt' =
           [WithdrawalPmt(retirement_growth_rate, retirement_duration, retirement_fvs)
                EXCEPT ![1] = PensionPmtNet(@, retirement_tax)]
    /\ written' =
           LET sh == Shown(include_lisa)
           IN  written \o [j \in 1..Len(sh) |->
                               PmtLine(sh[j], retirement_withdrawal_pmt'[sh[j]])]
    /\ pc' = "accumulation_df"
    /\ UNCHANGED <<inputs, lisa_vars, pension_vars, pension_monthly_net_deposit, lisa_monthly_deposit,
                   retirement_fvs, pension_monthly_net_withdrawal,
                   retirement_withdrawal_durations,
                   accumulation_df, drawdown_df, schedule_df>>

\* lines 343-375: one row per month 1 .. retirement_age * 12.  The three fund
\* columns are three calls of npf.fv with one rate and one month, here one call
\* over the array of the three deposits.
AccumulationRowOf(m, funds) ==
    [Month           |-> m,
     Growth          |-> RInt(growth_rate),
     Net_take_home   |-> RNeg(RInt(monthly_deposit)),
     Pension_deposit |-> pension_monthly_net_deposit,
     LISA_deposit    |-> lisa_monthly_deposit,
     ISA_deposit     |-> RInt(monthly_deposit),
     Pension_fund    |-> RNeg(funds[1]),
     LISA_fund       |-> RNeg(funds[2]),
     ISA_fund        |-> RNeg(funds[3])]

AccumulationRow(m) ==
    AccumulationRowOf(m, fv(PeriodicRate(growth_rate), m,
                            <<pension_monthly_net_deposit, lisa_monthly_deposit,
                              RInt(monthly_deposit)>>, Zeros(3)))

\* np.arange(n)
Arange0(n) == [i \in 1..n |-> i - 1]

\* np.arange(n) + 1
Arange1(n) == [i \in 1..n |-> i]

BuildAccumulationDf ==
    /\ pc = "accumulation_df"
    /\ accumulation_df' =
           LET accumulation_months == Arange1(retirement_age * 12)
           IN  [i \in 1..Len(accumulation_months) |-> AccumulationRow(accumulation_months[i])]
    /\ pc' = "drawdown_df"
    /\ UNCHANGED <<inputs, lisa_vars, pension_vars, pension_monthly_net_deposit, lisa_monthly_deposit,
                   retirement_fvs, pension_monthly_net_withdrawal,
                   retirement_withdrawal_durations, written, retirement_withdrawal_pmt,
                   drawdown_df, schedule_df>>

\* DrawdownRowOf with the withdrawals entered as positive amounts
DrawdownRowOfUnsigned(month, funds) ==
    [Month           |-> month,
     Growth          |-> RInt(retirement_growth_rate),
     Net_take_home   |-> RInt(retirement_monthly_withdrawal),
     Pension_deposit |-> pension_monthly_net_withdrawal,
     LISA_deposit    |-> RInt(retirement_monthly_withdrawal),
     ISA_deposit     |-> RInt(retirement_monthly_withdrawal),
     Pension_fund    |-> RNeg(funds[1]),
     LISA_fund       |-> RNeg(funds[2]),
     ISA_fund        |-> RNeg(funds[3])]

\* lines 381-412: one row per drawdown month k = 1 .. retirement_duration * 12
DrawdownRowOf(month, funds) ==
    [Month           |-> month,
     Growth          |-> RInt(retirement_growth_rate),
     Net_take_home   |-> RInt(retirement_monthly_withdrawal),
     Pension_deposit |-> RNeg(pension_monthly_net_withdrawal),
     LISA_deposit    |-> RNeg(RInt(retirement_monthly_withdrawal)),
     ISA_deposit     |-> RNeg(RInt(retirement_monthly_withdrawal)),
     Pension_fund    |-> RNeg(funds[1]),
     LISA_fund       |-> RNeg(funds[2]),
     ISA_fund        |-> RNeg(funds[3])]

\* the k-th drawdown month is month k + retirement_age * 12
DrawdownMonth(k) == k + retirement_age * 12

DrawdownRow(k) ==
    DrawdownRowOf(DrawdownMonth(k),
                  fv(PeriodicRate(retirement_growth_rate),
                     DrawdownMonth(k) - retirement_age * 12,
                     <<RNeg(pension_monthly_net_withdrawal),
                       RNeg(RInt(retirement_monthly_withdrawal)),
                       RNeg(RInt(retirement_monthly_withdrawal))>>,
                     retirement_fvs))

\* lines 378-412
BuildDrawdownDf ==
    /\ pc = "drawdown_df"
    /\ drawdown_df' =
           LET drawdown_months == Arange1(retirement_duration * 12)
           IN  [i \in 1..Len(drawdown_months) |-> DrawdownRow(drawdown_months[i])]
    /\ pc' = "schedule_df"
    /\ UNCHANGED <<inputs, lisa_vars, pension_vars, pension_monthly_net_deposit, lisa_monthly_deposit,
                   retirement_fvs, pension_monthly_net_withdrawal,
                   retirement_withdrawal_durations, written, retirement_withdrawal_pmt,
                   accumulation_df, schedule_df>>

\* DataFrame.drop(columns = cols) on one row
DropColumns(row, cols) == [c \in DOMAIN row \ cols |-> row[c]]

\* lines 415-419
BuildScheduleDf ==
    /\ pc = "schedule_df"
    /\ schedule_df' =
           LET concat == accumulation_df \o drawdown_df
           IN  IF ~include_lisa
                   THEN [i \in 1..Len(concat) |->
                            DropColumns(concat[i], {"LISA_deposit", "LISA_fund"})]
                   ELSE concat
    /\ pc' = "done"
    /\ UNCHANGED <<inputs, lisa_vars, pension_vars, pension_monthly_net_deposit, lisa_monthly_deposit,
                   retirement_fvs, pension_monthly_net_withdrawal,
                   retirement_withdrawal_durations, written, retirement_withdrawal_pmt,
                   accumulation_df, drawdown_df>>

(***************************************************************************)
(* The pension tab: the explanation written by detailedexplanationss (with *)
(* salary sacrifice) or detailedexplanationsipp (without), lines 496-586,  *)
(* and the schedule with the relief columns, lines 590-632.                *)
(***************************************************************************)
\* lines 496-504: [name, tax rate, NI rate] and [name, tax rate] of the two bands
current_tax_const ==
    IF current_tax = "BRT" THEN <<"basic rate", brt_tax_rate, brt_ni_rate>>
                           ELSE <<"higher rate", hrt_tax_rate, hrt_ni_rate>>

retirement_tax_const ==
    IF retirement_tax = "BRT" THEN <<"basic rate", brt_tax_rate>>
                              ELSE <<"higher rate", hrt_tax_rate>>

\* WithdrawalBreakdown whose after-tax part is taxed on the whole withdrawal
WithdrawalBreakdownAllTaxed(g, t) ==
    [what          |-> "breakdown",
     withdrawal    |-> g,
     tax_free      |-> RMul(g, RFrac(25, 100)),
     taxed         |-> RMul(g, RFrac(75, 100)),
     tax           |-> RMul(RMul(g, RFrac(75, 100)), t),
     after_tax     |-> RMul(g, RSub(ROne, t)),
     net_take_home |-> RInt(retirement_monthly_withdrawal)]

\* lines 532-541 and 569-578: the figures of "Of your ... withdrawal, 25% ..."
WithdrawalBreakdown(g, t) ==
    [what          |-> "breakdown",
     withdrawal    |-> g,
     tax_free      |-> RMul(g, RFrac(25, 100)),
     taxed         |-> RMul(g, RFrac(75, 100)),
     tax           |-> RMul(RMul(g, RFrac(75, 100)), t),
     after_tax     |-> RMul(RMul(g, RFrac(75, 100)), RSub(ROne, t)),
     net_take_home |-> RInt(retirement_monthly_withdrawal)]

\* lines 523-541 and 560-578: what both explanations say about retirement
RetirementExplanation ==
    <<[what |-> "retirement band", band |-> retirement_tax_const[1],
       percent |-> RMul(retirement_tax_const[2], RInt(100))],
      [what |-> "take home", net |-> RInt(retirement_monthly_withdrawal),
       gross |-> pension_monthly_net_withdrawal],
      WithdrawalBreakdown(pension_monthly_net_withdrawal, retirement_tax_const[2])>>

\* lines 545-578
detailedexplanationss ==
    <<[what |-> "current band", band |-> current_tax_const[1],
       percent |-> RMul(current_tax_const[2], RInt(100)),
       ni_percent |-> RMul(current_tax_const[3], RInt(100))],
      [what |-> "deposit", net |-> RInt(monthly_deposit),
       gross |-> pension_monthly_net_deposit],
      [what |-> "gross pay", gross |-> pension_monthly_net_deposit,
       tax |-> RMul(pension_monthly_net_deposit, current_tax_const[2]),
       ni |-> RMul(pension_monthly_net_deposit, current_tax_const[3]),
       net |-> RInt(monthly_deposit)]>>
    \o RetirementExplanation

\* lines 509-541, the warning only for a higher-rate tax payer
detailedexplanationsipp ==
    <<[what |-> "current band", band |-> current_tax_const[1],
       percent |-> RMul(current_tax_const[2], RInt(100))],
      [what |-> "deposit", net |-> RInt(monthly_deposit),
       gross |-> pension_monthly_net_deposit]>>
    \o (IF current_tax = "HRT"
            THEN <<[what |-> "reclaim",
                    added |-> RMul(RInt(monthly_deposit), RFrac(25, 100)),
                    reclaimed |-> RSub(RSub(pension_monthly_net_deposit,
                                            RInt(monthly_deposit)),
                                       RMul(RInt(monthly_deposit), RFrac(25, 100)))]>>
            ELSE <<>>)
    \o RetirementExplanation

\* lines 581-586
WritePensionExplanation ==
    /\ pc = "done"
    /\ written_pension' =
           IF salary_sacrifice = "Yes" THEN detailedexplanationss
                                       ELSE detailedexplanationsipp
    /\ pc' = "pension_schedule_df"
    /\ UNCHANGED <<inputs, lisa_vars, pension_schedule_df, pension_columns_to_show,
                   pension_monthly_net_deposit, lisa_monthly_deposit,
                   retirement_fvs, pension_monthly_net_withdrawal,
                   retirement_withdrawal_durations, written, retirement_withdrawal_pmt,
                   accumulation_df, drawdown_df, schedule_df>>

\* PensionAccumulationRow whose NI relief is that of the basic band
PensionAccumulationRowBasicNi(row) ==
    [Month           |-> row.Month,
     Net_take_home   |-> row.Net_take_home,
     Pension_deposit |-> row.Pension_deposit,
     Pension_fund    |-> row.Pension_fund,
     Growth          |-> row.Growth,
     Tax_relief      |-> RMul(pension_monthly_net_deposit, current_tax_const[2]),
     NI_relief       |-> RMul(pension_monthly_net_deposit, brt_ni_rate),
     Pension_fund_month_returns |->
         RMul(RDiv(RDiv(row.Growth, RInt(100)), RInt(12)), row.Pension_fund)]

\* lines 590-594 and 604: a row of accumulation_df with its five columns copied,
\* the two relief columns and the month returns
PensionAccumulationRow(row) ==
    [Month           |-> row.Month,
     Net_take_home   |-> row.Net_take_home,
     Pension_deposit |-> row.Pension_deposit,
     Pension_fund    |-> row.Pension_fund,
     Growth          |-> row.Growth,
     Tax_relief      |-> RMul(pension_monthly_net_deposit, current_tax_const[2]),
     NI_relief       |-> RMul(pension_monthly_net_deposit, current_tax_const[3]),
     Pension_fund_month_returns |->
         RMul(RDiv(RDiv(row.Growth, RInt(100)), RInt(12)), row.Pension_fund)]

\* lines 596-600 and 604: the same of a row of drawdown_df
PensionDrawdownRow(row) ==
    [Month           |-> row.Month,
     Net_take_home   |-> row.Net_take_home,
     Pension_deposit |-> row.Pension_deposit,
     Pension_fund    |-> row.Pension_fund,
     Growth          |-> row.Growth,
     Tax_relief      |-> RMul(RMul(RNeg(pension_monthly_net_withdrawal), RFrac(75, 100)),
                              retirement_tax_const[2]),
     NI_relief       |-> RZero,
     Pension_fund_month_returns |->
         RMul(RDiv(RDiv(row.Growth, RInt(100)), RInt(12)), row.Pension_fund)]

\* list.insert(at, x) with at counted from 0
ListInsert(l, at, x) == SubSeq(l, 1, at) \o <<x>> \o SubSeq(l, at + 1, Len(l))

\* lines 618-624: the columns of the displayed schedule
PensionColumnsToShow(show_pension_growth) ==
    LET base == <<"Month", "Net_take_home", "Tax_relief", "Pension_deposit", "Pension_fund">>
        ni   == IF salary_sacrifice = "Yes" THEN ListInsert(base, 3, "NI_relief") ELSE base
    IN  IF show_pension_growth THEN Append(ni, "Pension_fund_month_returns") ELSE ni

\* lines 590-632: the schedule of the pension tab; the toggle of line 609 is read
\* when the script reaches it
BuildPensionScheduleDf ==
    /\ pc = "pension_schedule_df"
    /\ pension_schedule_df' =
           [i \in 1..Len(accumulation_df) |-> PensionAccumulationRow(accumulation_df[i])]
           \o [i \in 1..Len(drawdown_df) |-> PensionDrawdownRow(drawdown_df[i])]
    /\ \E show_pension_growth \in BOOLEAN :
           pension_columns_to_show' = PensionColumnsToShow(show_pension_growth)
    /\ pc' = "lisa_tab"
    /\ UNCHANGED <<inputs, lisa_vars, written_pension,
                   pension_monthly_net_deposit, lisa_monthly_deposit,
                   retirement_fvs, pension_monthly_net_withdrawal,
                   retirement_withdrawal_durations, written, retirement_withdrawal_pmt,
                   accumulation_df, drawdown_df, schedule_df>>

Next ==
    \/ ComputeDeposits
    \/ ComputeRetirementFvs
    \/ ComputeWithdrawal
    \/ ComputeDurations
    \/ WriteSummary
    \/ ComputePmt
    \/ BuildAccumulationDf
    \/ BuildDrawdownDf
    \/ BuildScheduleDf
    \/ WritePensionExplanation
    \/ BuildPensionScheduleDf

Spec == Init /\ [][Next]_vars

(***************************************************************************)
(* The LISA tab under its toggle (lines 703-877): the figures revised for  *)
(* deposits to all accounts that stop 10 years before retirement.  The     *)
(* "month returns" columns of lines 879-881, Growth / 100 / 12 times a     *)
(* fund column, are left out of the rows.                                  *)
(***************************************************************************)
\* the years before retirement in which a LISA takes no deposit
YearsLess == 10

\* the years to retirement of the runs that open the LISA tab
LisaYears == {YearsLess, YearsLess + 1}

\* line 703 off: the tab writes nothing more
LisaTabClosed ==
    /\ pc = "lisa_tab"
    /\ ~show_detailed_lisa
    /\ pc' = "lisa_done"
    /\ UNCHANGED <<inputs, lisa_vars, pension_vars, pension_monthly_net_deposit, lisa_monthly_deposit,
                   retirement_fvs, pension_monthly_net_withdrawal,
                   retirement_withdrawal_durations, written, retirement_withdrawal_pmt,
                   accumulation_df, drawdown_df, schedule_df>>

\* lines 731-735
LisaNotPossible ==
    /\ pc = "lisa_tab"
    /\ show_detailed_lisa
    /\ retirement_age <= YearsLess
    /\ written_lisa' = <<[what |-> "not possible", years |-> retirement_age]>>
    /\ pc' = "lisa_done"
    /\ UNCHANGED <<inputs, pension_vars,
                   pension_monthly_net_deposit, lisa_monthly_deposit,
                   retirement_fvs, pension_monthly_net_withdrawal,
                   retirement_withdrawal_durations, written, retirement_withdrawal_pmt,
                   accumulation_df, drawdown_df, schedule_df,
                   retirement_fvs_10_years_less, retirement_fvs_10_years_less_at_age,
                   retirement_withdrawal_durations_10_years_less,
                   retirement_withdrawal_pmt_10_years_less, schedule_10_years_less_df>>

\* lines 753-758: -npf.fv(rate, months, 0, fvs), no payment
GrowthOnlyFvs(g, months, fvs) ==
    LET f == fv(PeriodicRate(g), months, Zeros(3), fvs)
    IN  [i \in 1..3 |-> RNeg(f[i])]

\* lines 761-762
FvAtAgeLine(idx, v) == [what |-> "fv at age", vehicle |-> retirement_vehicles[idx], value |-> v]

\* ComputeFvs10YearsLess entered at 10 years to retirement as well
ComputeFvs10YearsLessAtTen ==
    /\ pc = "lisa_tab"
    /\ show_detailed_lisa
    /\ retirement_age >= YearsLess
    /\ retirement_fvs_10_years_less' =
           RetirementFvs(growth_rate, retirement_age - YearsLess,
                         <<pension_monthly_net_deposit, lisa_monthly_deposit,
                           RInt(monthly_deposit)>>)
    /\ retirement_fvs_10_years_less_at_age' =
           GrowthOnlyFvs(growth_rate, YearsLess * 12, retirement_fvs_10_years_less')
    /\ written_lisa' = <<>>
    /\ pc' = "durations_10_years_less"
    /\ UNCHANGED <<inputs, pension_vars,
                   pension_monthly_net_deposit, lisa_monthly_deposit,
                   retirement_fvs, pension_monthly_net_withdrawal,
                   retirement_withdrawal_durations, written, retirement_withdrawal_pmt,
                   accumulation_df, drawdown_df, schedule_df,
                   retirement_withdrawal_durations_10_years_less,
                   retirement_withdrawal_pmt_10_years_less, schedule_10_years_less_df>>

\* lines 737-771: the loops of the tab write a line for every vehicle
ComputeFvs10YearsLess ==
    /\ pc = "lisa_tab"
    /\ show_detailed_lisa
    /\ ~(retirement_age <= YearsLess)
    /\ retirement_fvs_10_years_less' =
           RetirementFvs(growth_rate, retirement_age - YearsLess,
                         <<pension_monthly_net_deposit, lisa_monthly_deposit,
                           RInt(monthly_deposit)>>)
    /\ retirement_fvs_10_years_less_at_age' =
           GrowthOnlyFvs(growth_rate, YearsLess * 12, retirement_fvs_10_years_less')
    /\ written_lisa' =
           [i \in 1..3 |-> FvLine(i, retirement_fvs_10_years_less'[i])]
           \o [i \in 1..3 |-> FvAtAgeLine(i, retirement_fvs_10_years_less_at_age'[i])]
           \o [i \in 1..3 |-> WithdrawLine(i, GrossWithdrawals[i])]
    /\ pc' = "durations_10_years_less"
    /\ UNCHANGED <<inputs, pension_vars,
                   pension_monthly_net_deposit, lisa_monthly_deposit,
                   retirement_fvs, pension_monthly_net_withdrawal,
                   retirement_withdrawal_durations, written, retirement_withdrawal_pmt,
                   accumulation_df, drawdown_df, schedule_df,
                   retirement_withdrawal_durations_10_years_less,
                   retirement_withdrawal_pmt_10_years_less, schedule_10_years_less_df>>

\* lines 774-787
ComputeDurations10YearsLess ==
    /\ pc = "durations_10_years_less"
    /\ retirement_withdrawal_durations_10_years_less' =
           WithdrawalDurations(retirement_growth_rate, GrossWithdrawals,
                               retirement_fvs_10_years_less_at_age)
    /\ written_lisa' =
           written_lisa \o [i \in 1..3 |->
               DurationLine10YearsLess(i, retirement_withdrawal_durations_10_years_less'[i])]
    /\ pc' = "pmt_10_years_less"
    /\ UNCHANGED <<inputs, pension_vars,
                   pension_monthly_net_deposit, lisa_monthly_deposit,
                   retirement_fvs, pension_monthly_net_withdrawal,
                   retirement_withdrawal_durations, written, retirement_withdrawal_pmt,
                   accumulation_df, drawdown_df, schedule_df,
                   retirement_fvs_10_years_less, retirement_fvs_10_years_less_at_age,
                   retirement_withdrawal_pmt_10_years_less, schedule_10_years_less_df>>

\* lines 790-804
ComputePmt10YearsLess ==
    /\ pc = "pmt_10_years_less"
    /\ retirement_withdrawal_pmt_10_years_less' =
           [WithdrawalPmt(retirement_growth_rate, retirement_duration,
                          retirement_fvs_10_years_less_at_age)
                EXCEPT ![1] = PensionPmtNet(@, retirement_tax)]
    /\ written_lisa' =
           written_lisa \o [i \in 1..3 |->
               PmtLine(i, retirement_withdrawal_pmt_10_years_less'[i])]
    /\ pc' = "schedule_10_years_less_df"
    /\ UNCHANGED <<inputs, pension_vars,
                   pension_monthly_net_deposit, lisa_monthly_deposit,
                   retirement_fvs, pension_monthly_net_withdrawal,
                   retirement_withdrawal_durations, written, retirement_withdrawal_pmt,
                   accumulation_df, drawdown_df, schedule_df,
                   retirement_fvs_10_years_less, retirement_fvs_10_years_less_at_age,
                   retirement_withdrawal_durations_10_years_less,
                   schedule_10_years_less_df>>

\* line 807: accumulation_df.loc[:label, columns], the rows of the labels 0 .. label
\* of the default index, the label included
LocUpTo(df, label) == SubSeq(df, 1, label + 1)

\* lines 811-841: one row of accumulation_10_years_growth_df
GrowthOnlyRowOf(month, funds) ==
    [Month           |-> month,
     Growth          |-> RInt(growth_rate),
     Net_take_home   |-> RZero,
     Pension_deposit |-> RZero,
     LISA_deposit    |-> RZero,
     ISA_deposit     |-> RZero,
     Pension_fund    |-> RNeg(funds[1]),
     LISA_fund       |-> RNeg(funds[2]),
     ISA_fund        |-> RNeg(funds[3])]

\* GrowthOnlyMonth counting np.arange from 1
GrowthOnlyMonthFromOne(j) == j + (retirement_age * 12) - 119

\* line 812: np.arange(120) + (retirement_age * 12) - 119, j = 1 .. 120
GrowthOnlyMonth(j) == (j - 1) + (retirement_age * 12) - 119

GrowthOnlyRowAt(month) ==
    GrowthOnlyRowOf(month,
                    fv(PeriodicRate(growth_rate),
                       month - (retirement_age * 12 - YearsLess * 12),
                       Zeros(3), retirement_fvs_10_years_less))

\* lines 844-875: one row of drawdown_10_years_less_df
DrawdownRow10YearsLess(k) ==
    DrawdownRowOf(DrawdownMonth(k),
                  fv(PeriodicRate(retirement_growth_rate), k,
                     <<RNeg(pension_monthly_net_withdrawal),
                       RNeg(RInt(retirement_monthly_withdrawal)),
                       RNeg(RInt(retirement_monthly_withdrawal))>>,
                     retirement_fvs_10_years_less_at_age))

\* lines 807-877
BuildSchedule10YearsLess ==
    /\ pc = "schedule_10_years_less_df"
    /\ schedule_10_years_less_df' =
           LET drawdown_months == Arange1(retirement_duration * 12)
           IN  LocUpTo(accumulation_df, retirement_age * 12 - 121)
               \o [j \in 1..(YearsLess * 12) |-> GrowthOnlyRowAt(GrowthOnlyMonth(j))]
               \o [i \in 1..Len(drawdown_months) |->
                      DrawdownRow10YearsLess(drawdown_months[i])]
    /\ pc' = "lisa_done"
    /\ UNCHANGED <<inputs, pension_vars,
                   pension_monthly_net_deposit, lisa_monthly_deposit,
                   retirement_fvs, pension_monthly_net_withdrawal,
                   retirement_withdrawal_durations, written, retirement_withdrawal_pmt,
                   accumulation_df, drawdown_df, schedule_df,
                   retirement_fvs_10_years_less, retirement_fvs_10_years_less_at_age,
                   retirement_withdrawal_durations_10_years_less,
                   retirement_withdrawal_pmt_10_years_less, written_lisa>>

\* The runs that reach the LISA tab with its toggle off or on, at 10 and at 11
\* years to retirement.
InitLisa ==
    /\ pc = "deposits"
    /\ include_lisa \in BOOLEAN
    /\ monthly_deposit = 100
    /\ salary_sacrifice = "No"
    /\ current_tax = "BRT"
    /\ retirement_tax \in tax_bands
    /\ retirement_age \in LisaYears
    /\ growth_rate \in GrowthRates
    /\ retirement_monthly_withdrawal = 200
    /\ retirement_growth_rate \in GrowthRates
    /\ retirement_duration \in 1..MaxDuration
    /\ show_detailed_lisa \in BOOLEAN
    /\ pension_monthly_net_deposit = RZero
    /\ lisa_monthly_deposit = RZero
    /\ retirement_fvs = <<>>
    /\ pension_monthly_net_withdrawal = RZero
    /\ retirement_withdrawal_durations = <<>>
    /\ written = <<>>
    /\ retirement_withdrawal_pmt = <<>>
    /\ accumulation_df = <<>>
    /\ drawdown_df = <<>>
    /\ schedule_df = <<>>
    /\ retirement_fvs_10_years_less = <<>>
    /\ retirement_fvs_10_years_less_at_age = <<>>
    /\ retirement_withdrawal_durations_10_years_less = <<>>
    /\ retirement_withdrawal_pmt_10_years_less = <<>>
    /\ schedule_10_years_less_df = <<>>
    /\ written_lisa = <<>>
    /\ written_pension = <<>>
    /\ pension_schedule_df = <<>>
    /\ pension_columns_to_show = <<>>

NextLisa ==
    \/ Next
    \/ LisaTabClosed
    \/ LisaNotPossible
    \/ ComputeFvs10YearsLess
    \/ ComputeDurations10YearsLess
    \/ ComputePmt10YearsLess
    \/ BuildSchedule10YearsLess

SpecLisa == InitLisa /\ [][NextLisa]_vars

(***************************************************************************)
(* Properties of the script.                                               *)
(***************************************************************************)
\* the three accounts in the order of retirement_vehicles, and their columns
Accounts == IF include_lisa THEN {1, 2, 3} ELSE {1, 3}
FundCol == <<"Pension_fund", "LISA_fund", "ISA_fund">>
DepositCol == <<"Pension_deposit", "LISA_deposit", "ISA_deposit">>
VehicleIdx(v) == CHOOSE i \in 1..3 : retirement_vehicles[i] = v

\* C1: the gross pension deposit is net / (1 - t - ni) with salary sacrifice and
\* net / (1 - t) without it, where (t, ni) is (20%, 8%) in the Basic band and
\* (40%, 2%) in the Higher band of the current tax band; a net deposit of 200
\* in the Basic band without salary sacrifice gives 250; the retirement band
\* plays no part.
C1_PensionDepositFormula ==
    Past("deposits") =>
        LET t  == IF current_tax = "BRT" THEN RFrac(20, 100) ELSE RFrac(40, 100)
            ni == IF current_tax = "BRT" THEN RFrac(8, 100) ELSE RFrac(2, 100)
            keep == IF salary_sacrifice = "Yes" THEN RSub(RSub(ROne, t), ni)
                                                ELSE RSub(ROne, t)
        IN  /\ REq(RMul(pension_monthly_net_deposit, keep), RInt(monthly_deposit))
            /\ (monthly_deposit = 200 /\ current_tax = "BRT" /\ salary_sacrifice = "No")
                   => REq(pension_monthly_net_deposit, RInt(250))

\* a higher-rate salary-sacrifice deposit of 200 has been grossed up to 200 / 0.58
C1_Witness ==
    /\ Past("deposits")
    /\ monthly_deposit = 200 /\ current_tax = "HRT" /\ salary_sacrifice = "Yes"
    /\ retirement_tax = "BRT"
    /\ REq(pension_monthly_net_deposit, RFrac(20000, 58))

\* C2: the LISA deposit is the net deposit times 1.25 and the ISA deposit is the
\* net deposit itself, whatever the tax bands and the salary-sacrifice choice;
\* a net deposit of 100 gives a LISA deposit of 125.
C2_LisaIsaDeposits ==
    /\ Past("deposits") =>
           /\ REq(RMul(lisa_monthly_deposit, RInt(4)), RInt(5 * monthly_deposit))
           /\ monthly_deposit = 100 => REq(lisa_monthly_deposit, RInt(125))
    /\ Past("accumulation_df") =>
           \A i \in 1..Len(accumulation_df) :
               /\ REq(RMul(accumulation_df[i].LISA_deposit, RInt(4)),
                      RInt(5 * monthly_deposit))
               /\ REq(accumulation_df[i].ISA_deposit, RInt(monthly_deposit))

C2_Witness ==
    /\ Past("accumulation_df")
    /\ monthly_deposit = 200 /\ current_tax = "HRT" /\ salary_sacrifice = "Yes"
    /\ REq(lisa_monthly_deposit, RInt(250))
    /\ REq(accumulation_df[1].LISA_deposit, RInt(250))
    /\ REq(accumulation_df[1].ISA_deposit, RInt(200))

\* C3: the gross pension withdrawal is net / (1 - 0.75 * t) with t the rate of
\* the retirement tax band alone (net / 0.85 Basic, net / 0.70 Higher); the LISA
\* and ISA withdrawals are the net withdrawal.
C3_WithdrawalGrossUp ==
    /\ Past("withdrawal") =>
           LET keep == IF retirement_tax = "BRT" THEN RFrac(85, 100) ELSE RFrac(70, 100)
           IN  REq(RMul(pension_monthly_net_withdrawal, keep),
                   RInt(retirement_monthly_withdrawal))
    /\ Past("write_summary") =>
           \A j \in 1..Len(written) :
               (written[j].what = "withdraw" /\ written[j].vehicle # "pension")
                   => REq(written[j].value, RInt(retirement_monthly_withdrawal))
    /\ Past("drawdown_df") =>
           \A k \in 1..Len(drawdown_df) :
               /\ REq(drawdown_df[k].LISA_deposit, RNeg(RInt(retirement_monthly_withdrawal)))
               /\ REq(drawdown_df[k].ISA_deposit, RNeg(RInt(retirement_monthly_withdrawal)))

\* a higher-rate retiree who is a basic-rate saver withdraws 100 / 0.7 gross
C3_Witness ==
    /\ Past("drawdown_df")
    /\ retirement_tax = "HRT" /\ current_tax = "BRT"
    /\ retirement_monthly_withdrawal = 100
    /\ REq(pension_monthly_net_withdrawal, RFrac(1000, 7))
    /\ REq(drawdown_df[1].ISA_deposit, RInt(-100))

\* C4: in the schedule every fund balance of a month is the balance of the month
\* before times (1 + the periodic rate of the month's phase) plus the month's
\* signed deposit (the gross deposit, positive, in accumulation and the gross
\* withdrawal, negative, in drawdown), the balance before month 1 being zero.
C4_ScheduleRecurrence ==
    pc = "done" =>
        \A i \in 1..Len(schedule_df) :
            LET row    == schedule_df[i]
                rate   == RDiv(RDiv(row.Growth, RInt(100)), RInt(12))
                factor == RAdd(ROne, rate)
            IN  \A a \in Accounts :
                    LET prev == IF i = 1 THEN RZero ELSE schedule_df[i - 1][FundCol[a]]
                    IN  /\ REq(row[FundCol[a]],
                               RAdd(RMul(prev, factor), row[DepositCol[a]]))
                        /\ row[DepositCol[a]].s =
                               IF i <= 12 * retirement_age THEN 1 ELSE -1

\* a schedule with growth in both phases whose balances rise and then fall
C4_Witness ==
    /\ pc = "done"
    /\ growth_rate = 100 /\ retirement_growth_rate = 100 /\ include_lisa
    /\ Len(schedule_df) > 12 * retirement_age
    /\ RLt(schedule_df[1].ISA_fund, schedule_df[2].ISA_fund)
    /\ RLt(schedule_df[12 * retirement_age + 1].ISA_fund,
           schedule_df[12 * retirement_age].ISA_fund)

\* C5: the Month column of the schedule is exactly 1, 2, ..., 12 * Y + 12 * D:
\* the accumulation months followed by the drawdown months, without a gap or a
\* repeat.
C5_MonthColumn ==
    pc = "done" =>
        /\ Len(schedule_df) = 12 * retirement_age + 12 * retirement_duration
        /\ \A i \in 1..Len(schedule_df) : schedule_df[i].Month = i

C5_Witness ==
    /\ pc = "done"
    /\ retirement_age = MaxYears
    /\ schedule_df[12 * retirement_age].Month = 12 * retirement_age
    /\ schedule_df[12 * retirement_age + 1].Month = 12 * retirement_age + 1
    /\ schedule_df[Len(schedule_df)].Month = 12 * (retirement_age + retirement_duration)

\* C6: the fund balances of the last accumulation month are retirement_fvs, and
\* the balance of the first drawdown month is that terminal value times
\* (1 + the post-retirement periodic rate) less the gross withdrawal.
C6_PhaseBoundary ==
    pc = "schedule_df" =>
        /\ accumulation_df[Len(accumulation_df)].Month = 12 * retirement_age
        /\ drawdown_df[1].Month = 12 * retirement_age + 1
        /\ \A a \in 1..3 :
            /\ REq(accumulation_df[Len(accumulation_df)][FundCol[a]], retirement_fvs[a])
            /\ REq(drawdown_df[1][FundCol[a]],
                   RSub(RMul(retirement_fvs[a],
                             RAdd(ROne, PeriodicRate(retirement_growth_rate))),
                        GrossWithdrawals[a]))

\* with 100% growth after one year of 100 a month, the ISA holds
\* 1200 * ((13/12)^12 - 1) at retirement and 13/12 of it less 200 a month later
C6_Witness ==
    /\ pc = "schedule_df"
    /\ monthly_deposit = 100 /\ growth_rate = 100 /\ retirement_age = 1
    /\ retirement_growth_rate = 100 /\ retirement_monthly_withdrawal = 200
    /\ accumulation_df[12].Month = 12 /\ drawdown_df[1].Month = 13
    /\ REq(accumulation_df[12].ISA_fund,
           RMul(RInt(1200), RSub(RPow(RFrac(13, 12), 12), ROne)))
    /\ REq(drawdown_df[1].ISA_fund,
           RSub(RMul(accumulation_df[12].ISA_fund, RFrac(13, 12)), RInt(200)))

\* C7: with zero growth before retirement the balance of accumulation month m is
\* m times the gross monthly deposit, 12 * Y times the deposit at retirement;
\* with zero growth after retirement the balance
\* after k drawdown months is the balance at retirement less k times the gross
\* withdrawal.
C7_ZeroGrowthLinear ==
    pc = "schedule_df" =>
        \A a \in 1..3 :
            /\ growth_rate = 0 =>
                   /\ \A m \in 1..Len(accumulation_df) :
                          REq(accumulation_df[m][FundCol[a]],
                              RMul(RInt(m), accumulation_df[m][DepositCol[a]]))
                   /\ REq(retirement_fvs[a],
                          RMul(RInt(12 * retirement_age), accumulation_df[1][DepositCol[a]]))
            /\ retirement_growth_rate = 0 =>
                   \A k \in 1..Len(drawdown_df) :
                       REq(drawdown_df[k][FundCol[a]],
                           RSub(retirement_fvs[a], RMul(RInt(k), GrossWithdrawals[a])))

\* no growth at all: 24 months of 200 make 4800, and 12 withdrawals of 100 leave 3600
C7_Witness ==
    /\ pc = "schedule_df"
    /\ growth_rate = 0 /\ retirement_growth_rate = 0
    /\ monthly_deposit = 200 /\ retirement_age = 2 /\ retirement_monthly_withdrawal = 100
    /\ REq(accumulation_df[24].ISA_fund, RInt(4800))
    /\ REq(drawdown_df[12].ISA_fund, RInt(3600))

\* C8: with the other inputs fixed, each element of retirement_fvs does not
\* decrease when yearsToRetirement grows.
C8_FvsMonotoneInYears ==
    pc = "withdrawal" =>
        LET deposits == <<pension_monthly_net_deposit, lisa_monthly_deposit,
                          RInt(monthly_deposit)>>
            after == [y \in 1..retirement_age |-> RetirementFvs(growth_rate, y, deposits)]
        IN  \A i \in 1..3 :
                /\ REq(after[retirement_age][i], retirement_fvs[i])
                /\ \A y \in 1..retirement_age : \A y2 \in y..retirement_age :
                       RLe(after[y][i], after[y2][i])

\* two years have been accumulated, and one year gives strictly less
C8_Witness ==
    /\ pc = "withdrawal"
    /\ retirement_age = 2 /\ growth_rate = 100
    /\ RLt(RetirementFvs(growth_rate, 1,
                         <<pension_monthly_net_deposit, lisa_monthly_deposit,
                           RInt(monthly_deposit)>>)[3],
           retirement_fvs[3])

\* the monthly growth of the fund at retirement: terminalValue * periodic rate
Yield(i) == RMul(retirement_fvs[i], PeriodicRate(retirement_growth_rate))

\* a duration that is a finite positive number of months
FiniteMonths(d) ==
    \/ d.k = "num" /\ d.v.s > 0
    \/ d.k = "log" /\ RLt(ROne, d.arg)

Sustained(i) ==
    RLe(retirement_fvs[i],
        RNeg(fv(PeriodicRate(retirement_growth_rate), 1, <<RNeg(GrossWithdrawals[i])>>,
                <<retirement_fvs[i]>>)[1]))

C11_DurationRoundTrip ==
    /\ pc = "write_summary" =>
           \A i \in 1..3 :
               FiniteMonths(retirement_withdrawal_durations[i]) =>
                   REq(fvAtDuration(PeriodicRate(retirement_growth_rate),
                                    retirement_withdrawal_durations[i],
                                    RNeg(GrossWithdrawals[i]), retirement_fvs[i]),
                       RZero)
    /\ pc = "schedule_df" =>
           \A i \in 1..3 : \A k \in 1..Len(drawdown_df) :
               retirement_withdrawal_durations[i] = Num(RInt(k))
                   => REq(drawdown_df[k][FundCol[i]], RZero)

\* with growth in retirement the pension lasts log(arg) / log(13/12) months,
\* arg > 1, and the balance after that many months is 0
C11_Witness ==
    /\ pc = "write_summary"
    /\ retirement_growth_rate = 100
    /\ retirement_withdrawal_durations[1].k = "log"
    /\ retirement_withdrawal_durations[1].base = RFrac(13, 12)
    /\ RLt(ROne, retirement_withdrawal_durations[1].arg)
    /\ REq(fvAtDuration(RFrac(1, 12), retirement_withdrawal_durations[1],
                        RNeg(pension_monthly_net_withdrawal), retirement_fvs[1]),
           RZero)

\* the duration d is exactly n months
IsMonths(d, n) ==
    \/ d.k = "num" /\ REq(d.v, RInt(n))
    \/ d.k = "log" /\ REq(d.arg, RPow(d.base, n))

\* C12: payment and number of periods are inverse: for every account, when the
\* gross monthly withdrawal is the gross fixed-duration payment computed for
\* n = 12 * D months from the terminal value, the sustainable-withdrawal
\* duration computed from the same terminal value and rate is n.
C12_PmtNperInverse ==
    pc = "accumulation_df" =>
        LET gross == WithdrawalPmt(retirement_growth_rate, retirement_duration,
                                   retirement_fvs)
            back  == WithdrawalDurations(retirement_growth_rate, gross, retirement_fvs)
        IN  /\ REq(gross[2], retirement_withdrawal_pmt[2])
            /\ REq(gross[3], retirement_withdrawal_pmt[3])
            /\ \A i \in 1..3 : IsMonths(back[i], 12 * retirement_duration)

\* the payment of a growing ISA over 12 months lasts log((13/12)^12) / log(13/12)
\* months
C12_Witness ==
    /\ pc = "accumulation_df"
    /\ retirement_growth_rate = 100 /\ retirement_duration = 1
    /\ LET back == WithdrawalDurations(retirement_growth_rate,
                                       <<retirement_withdrawal_pmt[3],
                                         retirement_withdrawal_pmt[3],
                                         retirement_withdrawal_pmt[3]>>,
                                       retirement_fvs)[3]
       IN  /\ back.k = "log"
           /\ REq(back.base, RFrac(13, 12))
           /\ REq(back.arg, RPow(RFrac(13, 12), 12))

\* a figure of the truncated analysis has been computed
TruncatedComputed ==
    \/ retirement_fvs_10_years_less # <<>>
    \/ retirement_fvs_10_years_less_at_age # <<>>
    \/ retirement_withdrawal_durations_10_years_less # <<>>
    \/ retirement_withdrawal_pmt_10_years_less # <<>>
    \/ schedule_10_years_less_df # <<>>

\* the tab has written that the truncated analysis is not possible
NotPossibleWritten == \E j \in 1..Len(written_lisa) : written_lisa[j].what = "not possible"

\* C13: the analysis with contributions stopping 10 years early is produced
\* exactly when the detailed LISA toggle is on and yearsToRetirement > 10: then
\* the terminal values, durations, payments and schedule are all computed; at
\* yearsToRetirement <= 10 none of them is computed and "not possible" is
\* written instead; with the toggle off nothing is computed or written.
C13_TruncatedIffMoreThanTenYears ==
    /\ TruncatedComputed => (show_detailed_lisa /\ retirement_age > 10)
    /\ NotPossibleWritten =>
           (show_detailed_lisa /\ retirement_age <= 10 /\ ~TruncatedComputed)
    /\ pc = "lisa_done" =>
           /\ (show_detailed_lisa /\ retirement_age > 10) =>
                  /\ Len(retirement_fvs_10_years_less) = 3
                  /\ Len(retirement_fvs_10_years_less_at_age) = 3
                  /\ Len(retirement_withdrawal_durations_10_years_less) = 3
                  /\ Len(retirement_withdrawal_pmt_10_years_less) = 3
                  /\ schedule_10_years_less_df # <<>>
           /\ (show_detailed_lisa /\ retirement_age <= 10) =>
                  written_lisa = <<[what |-> "not possible", years |-> retirement_age]>>
           /\ ~show_detailed_lisa => written_lisa = <<>>

\* at 11 years to retirement the truncated analysis is complete: one year of deposits
C13_Witness ==
    /\ pc = "lisa_done"
    /\ show_detailed_lisa /\ retirement_age = 11 /\ growth_rate = 100
    /\ ~NotPossibleWritten
    /\ Len(retirement_fvs_10_years_less) = 3
    /\ REq(retirement_fvs_10_years_less[3],
           RMul(RInt(1200), RSub(RPow(RFrac(13, 12), 12), ROne)))
    /\ schedule_10_years_less_df # <<>>

\* C14: for yearsToRetirement Y > 10 the truncated schedule is, for the three
\* accounts alike: the first (Y - 10) * 12 rows of the accumulation schedule
\* (months 1 .. 12Y - 120); then 120 growth-only months 12Y - 119 .. 12Y with
\* deposits and net take home 0, each balance being that of month 12Y - 120
\* compounded at the pre-retirement rate for k = 1 .. 120 periods; then the
\* drawdown rows from month 12Y + 1, starting from the balance of month 12Y.
\* The Month column is 1, 2, ... without a gap or a repeat.
C14_TruncatedSchedule ==
    (pc = "lisa_done" /\ show_detailed_lisa /\ retirement_age > 10) =>
        LET S      == schedule_10_years_less_df
            c      == (retirement_age - 10) * 12
            factor == RAdd(ROne, PeriodicRate(growth_rate))
            after  == RAdd(ROne, PeriodicRate(retirement_growth_rate))
        IN  /\ Len(S) = c + 120 + 12 * retirement_duration
            /\ \A i \in 1..Len(S) : S[i].Month = i
            /\ \A i \in 1..c : S[i] = accumulation_df[i]
            /\ \A k \in 1..120 :
                   LET power == RPow(factor, k)
                   IN  /\ S[c + k].Net_take_home = RZero
                       /\ \A a \in 1..3 :
                              /\ S[c + k][DepositCol[a]] = RZero
                              /\ REq(S[c + k][FundCol[a]],
                                     RMul(S[c][FundCol[a]], power))
            /\ \A k \in 1..(12 * retirement_duration) : \A a \in 1..3 :
                   /\ REq(S[c + 120 + k][DepositCol[a]], RNeg(GrossWithdrawals[a]))
                   /\ REq(S[c + 120 + k][FundCol[a]],
                          RSub(RMul(S[c + 120 + k - 1][FundCol[a]], after),
                               GrossWithdrawals[a]))

\* 11 years to retirement: 12 months of deposits, months 13 .. 132 of growth
\* alone, and the drawdown from month 133
C14_Witness ==
    /\ pc = "lisa_done" /\ show_detailed_lisa
    /\ retirement_age = 11 /\ growth_rate = 100 /\ retirement_growth_rate = 100
    /\ schedule_10_years_less_df[12] = accumulation_df[12]
    /\ schedule_10_years_less_df[13].Month = 13
    /\ schedule_10_years_less_df[13].LISA_deposit = RZero
    /\ REq(schedule_10_years_less_df[132].LISA_fund,
           RMul(accumulation_df[12].LISA_fund, RPow(RFrac(13, 12), 120)))
    /\ schedule_10_years_less_df[133].Month = 133
    /\ RLt(schedule_10_years_less_df[133].LISA_deposit, RZero)

\* the payment p, taken at the end of each of the 12 * D months of the drawdown
\* horizon, uses up the fund exactly
Amortises(p, fund) ==
    LET rate == PeriodicRate(retirement_growth_rate)
        temp == RPow(RAdd(ROne, rate), 12 * retirement_duration)
    IN  IF retirement_growth_rate = 0
            THEN REq(RMul(p, RInt(12 * retirement_duration)), fund)
            ELSE REq(RMul(p, RSub(temp, ROne)), RMul(RMul(fund, temp), rate))

\* reported are the payments of the three accounts out of the funds fvs: the
\* pension's is 0.25 * p + 0.75 * p * (1 - t) for its gross payment p and the
\* rate t of the retirement band, the LISA's and the ISA's are gross payments
ReportedPmt(reported, fvs) ==
    LET t == IF retirement_tax = "BRT" THEN RFrac(20, 100) ELSE RFrac(40, 100)
        p == RDiv(reported[1], RSub(ROne, RMul(RFrac(75, 100), t)))
    IN  /\ Amortises(p, fvs[1])
        /\ REq(reported[1],
               RAdd(RMul(RFrac(25, 100), p),
                    RMul(RMul(RFrac(75, 100), p), RSub(ROne, t))))
        /\ Amortises(reported[2], fvs[2])
        /\ Amortises(reported[3], fvs[3])

\* C15: for the chosen drawdown horizon the reported monthly payment of the
\* pension is its gross payment p re-split as 0.25 * p + 0.75 * p * (1 - t), t the
\* rate of the retirement band, and the reported payments of the LISA and of the
\* ISA are their gross payments; the truncated analysis applies the same rule.
C15_PmtReSplit ==
    /\ pc = "accumulation_df" =>
           /\ ReportedPmt(retirement_withdrawal_pmt, retirement_fvs)
           /\ \A j \in 1..Len(written) :
                  written[j].what = "pmt" =>
                      written[j].value =
                          retirement_withdrawal_pmt[VehicleIdx(written[j].vehicle)]
    /\ pc = "schedule_10_years_less_df" =>
           /\ ReportedPmt(retirement_withdrawal_pmt_10_years_less,
                          retirement_fvs_10_years_less_at_age)
           /\ \A j \in 1..Len(written_lisa) :
                  written_lisa[j].what = "pmt" =>
                      written_lisa[j].value =
                          retirement_withdrawal_pmt_10_years_less[
                              VehicleIdx(written_lisa[j].vehicle)]

\* a higher-rate retiree is paid 70% of the gross pension payment in the
\* summary and in the truncated analysis, and the whole ISA payment
C15_Witness ==
    /\ pc = "schedule_10_years_less_df"
    /\ retirement_tax = "HRT" /\ retirement_growth_rate = 100
    /\ REq(retirement_withdrawal_pmt[1],
           RMul(RFrac(70, 100),
                WithdrawalPmt(retirement_growth_rate, retirement_duration,
                              retirement_fvs)[1]))
    /\ REq(retirement_withdrawal_pmt_10_years_less[1],
           RMul(RFrac(70, 100),
                WithdrawalPmt(retirement_growth_rate, retirement_duration,
                              retirement_fvs_10_years_less_at_age)[1]))
    /\ Amortises(retirement_withdrawal_pmt_10_years_less[3],
                 retirement_fvs_10_years_less_at_age[3])
    /\ \E j \in 1..Len(written_lisa) :
           written_lisa[j] = PmtLine(1, retirement_withdrawal_pmt_10_years_less[1])

\* C16: every fund balance of the schedule is non-negative: in every
\* accumulation row and in every drawdown row the fund value of every account
\* is >= 0.  (The drawdown rows go on past the month in which a fund is used
\* up, with balances below zero.)
C16_FundsNonNegative ==
    pc = "done" =>
        \A i \in 1..Len(schedule_df) : \A a \in Accounts :
            schedule_df[i][FundCol[a]].s >= 0

\* the gross contributions per vehicle
GrossDeposits ==
    <<pension_monthly_net_deposit, lisa_monthly_deposit, RInt(monthly_deposit)>>

\* C17: the signs of the schedule are constant within each phase: in every
\* accumulation row the net take home is minus the net monthly deposit and the
\* deposit column of each account is its gross contribution, a positive amount;
\* in every drawdown row the net take home is plus the desired net withdrawal
\* and the deposit column of each account is minus its gross withdrawal; none
\* of these values changes from one month of a phase to the next.
C17_SignConvention ==
    pc = "schedule_df" =>
        /\ \A m \in 1..Len(accumulation_df) :
               /\ REq(accumulation_df[m].Net_take_home, RInt(-monthly_deposit))
               /\ \A a \in 1..3 :
                      /\ REq(accumulation_df[m][DepositCol[a]], GrossDeposits[a])
                      /\ accumulation_df[m][DepositCol[a]].s = 1
                      /\ accumulation_df[m][DepositCol[a]] = accumulation_df[1][DepositCol[a]]
        /\ \A k \in 1..Len(drawdown_df) :
               /\ REq(drawdown_df[k].Net_take_home, RInt(retirement_monthly_withdrawal))
               /\ \A a \in 1..3 :
                      /\ REq(drawdown_df[k][DepositCol[a]], RNeg(GrossWithdrawals[a]))
                      /\ drawdown_df[k][DepositCol[a]].s = -1
                      /\ drawdown_df[k][DepositCol[a]] = drawdown_df[1][DepositCol[a]]

\* a saver who gives up 200 a month and a retiree who takes home 100 a month
C17_Witness ==
    /\ pc = "schedule_df"
    /\ monthly_deposit = 200 /\ retirement_monthly_withdrawal = 100
    /\ retirement_tax = "HRT" /\ retirement_age = 2
    /\ REq(accumulation_df[24].Net_take_home, RInt(-200))
    /\ REq(accumulation_df[24].LISA_deposit, RInt(250))
    /\ REq(drawdown_df[12].Net_take_home, RInt(100))
    /\ REq(drawdown_df[12].Pension_deposit, RNeg(RFrac(1000, 7)))

\* The figures of the script as functions of the inputs other than include_lisa
RefDeposits ==
    <<PensionDeposit(monthly_deposit, current_tax, salary_sacrifice),
      LisaDeposit(monthly_deposit), RInt(monthly_deposit)>>
RefFvs == RetirementFvs(growth_rate, retirement_age, RefDeposits)
RefWithdrawals ==
    <<PensionWithdrawal(retirement_monthly_withdrawal, retirement_tax),
      RInt(retirement_monthly_withdrawal), RInt(retirement_monthly_withdrawal)>>
RefDurations == WithdrawalDurations(retirement_growth_rate, RefWithdrawals, RefFvs)
RefPmt ==
    [WithdrawalPmt(retirement_growth_rate, retirement_duration, RefFvs)
         EXCEPT ![1] = PensionPmtNet(@, retirement_tax)]
RefRow(i, deposits, withdrawals, fvs) ==
    IF i <= 12 * retirement_age
        THEN AccumulationRowOf(i, fv(PeriodicRate(growth_rate), i, deposits, Zeros(3)))
        ELSE DrawdownRowOf(i, fv(PeriodicRate(retirement_growth_rate),
                                 i - 12 * retirement_age,
                                 [a \in 1..3 |-> RNeg(withdrawals[a])], fvs))

\* the columns of the schedule
AllColumns ==
    {"Month", "Growth", "Net_take_home", "Pension_deposit", "LISA_deposit", "ISA_deposit",
     "Pension_fund", "LISA_fund", "ISA_fund"}
LisaColumns == {"LISA_deposit", "LISA_fund"}

\* the value a summary line of the vehicle idx shows
RefLineValue(what, idx, fvs, withdrawals, durations, pmts) ==
    IF what = "fv" THEN fvs[idx]
    ELSE IF what = "withdraw" THEN withdrawals[idx]
    ELSE IF what = "duration" THEN durations[idx]
    ELSE pmts[idx]

\* C18: leaving out the LISA is a projection: with include_lisa false the
\* schedule has no LISA deposit and no LISA fund column and the summaries
\* (terminal values, withdrawals, durations, payments) have no LISA line, and
\* every pension and ISA value of the schedule and of the summaries is the
\* value computed from the other inputs alone, the same with include_lisa true.
C18_ExcludingLisaIsProjection ==
    pc = "done" =>
        LET deposits    == RefDeposits
            fvs         == RefFvs
            withdrawals == RefWithdrawals
            durations   == RefDurations
            pmts        == RefPmt
        IN  /\ \A i \in 1..Len(schedule_df) :
                   LET row == RefRow(i, deposits, withdrawals, fvs)
                   IN  /\ DOMAIN schedule_df[i] =
                              IF include_lisa THEN AllColumns ELSE AllColumns \ LisaColumns
                       /\ schedule_df[i] = [c \in DOMAIN schedule_df[i] |-> row[c]]
            /\ Len(schedule_df) = 12 * retirement_age + 12 * retirement_duration
            /\ Len(written) = 4 * (IF include_lisa THEN 3 ELSE 2)
            /\ \A what \in {"fv", "withdraw", "duration", "pmt"} :
                   \A idx \in 1..3 :
                       LET lines == {j \in 1..Len(written) :
                                        /\ written[j].what = what
                                        /\ written[j].vehicle = retirement_vehicles[idx]}
                           value == RefLineValue(what, idx, fvs, withdrawals, durations, pmts)
                       IN  /\ Cardinality(lines) =
                                  IF idx = 2 /\ ~include_lisa THEN 0 ELSE 1
                           /\ \A j \in lines :
                                  IF what = "duration"
                                      THEN written[j] = DurationLine(idx, value)
                                      ELSE written[j].value = value

\* without the LISA the schedule has seven columns and the summaries eight
\* lines, the ISA's figures being those of the full run
C18_Witness ==
    /\ pc = "done"
    /\ ~include_lisa
    /\ growth_rate = 100 /\ retirement_age = 2
    /\ DOMAIN schedule_df[24] = AllColumns \ LisaColumns
    /\ schedule_df[24].ISA_fund = RefFvs[3]
    /\ Len(written) = 8
    /\ \A j \in 1..Len(written) : written[j].vehicle # "LISA"

C20_GrossUpNetDownInverse ==
    /\ Past("withdrawal") =>
           REq(PensionPmtNet(pension_monthly_net_withdrawal, retirement_tax),
               RInt(retirement_monthly_withdrawal))
    /\ pc = "lisa_tab" =>
           /\ \E j \in 1..Len(written_pension) : written_pension[j].what = "breakdown"
           /\ \A j \in 1..Len(written_pension) :
                  written_pension[j].what = "breakdown" =>
                      LET b == written_pension[j]
                      IN  /\ REq(b.withdrawal, pension_monthly_net_withdrawal)
                          /\ REq(b.net_take_home, RInt(retirement_monthly_withdrawal))
                          /\ REq(RAdd(b.tax_free, b.after_tax), b.net_take_home)
                          /\ REq(RAdd(b.tax_free, b.taxed), b.withdrawal)
                          /\ REq(RAdd(b.tax, b.after_tax), b.taxed)

\* a higher-rate retiree taking home 100: of 1000/7 withdrawn, 250/7 is tax free
\* and 450/7 is left of the rest after tax
C20_Witness ==
    /\ pc = "lisa_tab"
    /\ retirement_tax = "HRT" /\ retirement_monthly_withdrawal = 100
    /\ \E j \in 1..Len(written_pension) :
           /\ written_pension[j].what = "breakdown"
           /\ REq(written_pension[j].withdrawal, RFrac(1000, 7))
           /\ REq(written_pension[j].tax_free, RFrac(250, 7))
           /\ REq(written_pension[j].after_tax, RFrac(450, 7))
    /\ REq(PensionPmtNet(RFrac(1000, 7), "HRT"), RInt(100))

\* the duration a is at least the duration b, "Forever" (NaN) being the longest;
\* two durations at one rate are both numbers or both logarithms to one base
DurationAtLeast(a, b) ==
    \/ isnan(a)
    \/ a.k = "num" /\ b.k = "num" /\ RLe(b.v, a.v)
    \/ a.k = "log" /\ b.k = "log" /\ REq(a.base, b.base) /\ RLe(b.arg, a.arg)

\* C21: the gross monthly deposits are ordered pension >= LISA > ISA, with
\* pension = LISA exactly for the basic band without salary sacrifice; the
\* terminal values are ordered pension >= LISA > ISA > 0; and the LISA's
\* withdrawal duration and fixed-duration payment are never smaller than the
\* ISA's.
C21_VehicleOrdering ==
    /\ Past("deposits") =>
           /\ RLe(lisa_monthly_deposit, pension_monthly_net_deposit)
           /\ RLt(RInt(monthly_deposit), lisa_monthly_deposit)
           /\ (current_tax = "BRT" /\ salary_sacrifice = "No")
                  <=> REq(pension_monthly_net_deposit, lisa_monthly_deposit)
    /\ Past("retirement_fvs") =>
           /\ RLe(retirement_fvs[2], retirement_fvs[1])
           /\ RLt(retirement_fvs[3], retirement_fvs[2])
           /\ RLt(RZero, retirement_fvs[3])
    /\ Past("durations") =>
           DurationAtLeast(retirement_withdrawal_durations[2],
                           retirement_withdrawal_durations[3])
    /\ Past("pmt") =>
           RLe(retirement_withdrawal_pmt[3], retirement_withdrawal_pmt[2])

\* basic band without salary sacrifice: pension and LISA deposits and terminal
\* values coincide, and the LISA lasts a finite time strictly longer than the ISA
C21_Witness ==
    /\ pc = "accumulation_df"
    /\ current_tax = "BRT" /\ salary_sacrifice = "No"
    /\ REq(pension_monthly_net_deposit, lisa_monthly_deposit)
    /\ REq(retirement_fvs[1], retirement_fvs[2])
    /\ RLt(retirement_fvs[3], retirement_fvs[2])
    /\ retirement_withdrawal_durations[2].k = "log"
    /\ retirement_withdrawal_durations[3].k = "log"
    /\ RLt(retirement_withdrawal_durations[3].arg, retirement_withdrawal_durations[2].arg)
    /\ RLt(retirement_withdrawal_pmt[3], retirement_withdrawal_pmt[2])

\* line 627: the displayed frame pension_schedule_df[pension_columns_to_show]
PensionScheduleShown ==
    [i \in 1..Len(pension_schedule_df) |->
        [c \in {pension_columns_to_show[j] : j \in 1..Len(pension_columns_to_show)} |->
            pension_schedule_df[i][c]]]

\* C22: the displayed relief columns of the pension schedule balance in every
\* row.  In an accumulation row the pension deposit equals the net amount given
\* up (minus net take home) plus Tax relief, plus NI relief when salary sacrifice
\* is selected, the NI relief column being shown exactly then; in a drawdown row
\* net take home equals the gross pension withdrawal plus the negative Tax
\* relief entry, and NI relief is 0.
C22_ReliefColumnsBalance ==
    pc = "lisa_tab" =>
        LET shown == PensionScheduleShown
            n     == Len(accumulation_df)
        IN  /\ Len(shown) = n + Len(drawdown_df)
            /\ (\E j \in 1..Len(pension_columns_to_show) :
                    pension_columns_to_show[j] = "NI_relief") <=> salary_sacrifice = "Yes"
            /\ \A i \in 1..n :
                   /\ shown[i].Month = i
                   /\ RLt(RZero, shown[i].Tax_relief)
                   /\ REq(shown[i].Pension_deposit,
                          RAdd(RAdd(RNeg(shown[i].Net_take_home), shown[i].Tax_relief),
                               IF salary_sacrifice = "Yes" THEN shown[i].NI_relief
                                                           ELSE RZero))
            /\ \A i \in (n + 1)..Len(shown) :
                   /\ shown[i].Month = i
                   /\ RLt(shown[i].Tax_relief, RZero)
                   /\ REq(shown[i].Net_take_home,
                          RAdd(RNeg(shown[i].Pension_deposit), shown[i].Tax_relief))
                   /\ REq(RNeg(shown[i].Pension_deposit), pension_monthly_net_withdrawal)
                   /\ REq(pension_schedule_df[i].NI_relief, RZero)

\* a higher-rate payer with salary sacrifice saving 100 a month: 100 given up,
\* 2000/29 tax relief and 100/29 NI relief make the deposit of 5000/29; in
\* retirement 200 a month at the basic rate is 4000/17 less 600/17 of tax
C22_Witness ==
    /\ pc = "lisa_tab"
    /\ salary_sacrifice = "Yes" /\ current_tax = "HRT" /\ retirement_tax = "BRT"
    /\ monthly_deposit = 100 /\ retirement_monthly_withdrawal = 200
    /\ pension_columns_to_show[4] = "NI_relief"
    /\ LET shown == PensionScheduleShown
           n     == Len(accumulation_df)
       IN  /\ REq(shown[1].Pension_deposit, RFrac(5000, 29))
           /\ REq(shown[1].Tax_relief, RFrac(2000, 29))
           /\ REq(shown[1].NI_relief, RFrac(100, 29))
           /\ REq(shown[n + 1].Pension_deposit, RNeg(RFrac(4000, 17)))
           /\ REq(shown[n + 1].Tax_relief, RNeg(RFrac(600, 17)))
           /\ REq(shown[n + 1].NI_relief, RZero)

\* the line reports its duration of d months as floor(d / 12) years and a number
\* of months within 0..11, the two together less than a year above d
WholeYearsAndMonths(line) ==
    /\ line.years = FloorDiv12(line.value)
    /\ line.months \in 0..11
    /\ 12 * line.years + line.months >= 12 =>
           CmpHalfMonths(line.value, 2 * (12 * line.years + line.months - 12)) > 0

\* C23: a finite duration of d months is reported as the same pair of years and
\* months in the main summary and in the truncated summary: the years are
\* floor(d / 12) and the months the remainder of d modulo 12, within 0..11, so
\* that years * 12 + months never exceeds d by a whole year.
C23_YearsAndMonthsDisplay ==
    /\ pc = "pmt" =>
           \A j \in 1..Len(written) :
               (written[j].what = "duration" /\ written[j].text = "years and months")
                   => WholeYearsAndMonths(written[j])
    /\ pc = "pmt_10_years_less" =>
           \A j \in 1..Len(written_lisa) :
               (written_lisa[j].what = "duration"
                    /\ written_lisa[j].text = "years and months")
                   => /\ WholeYearsAndMonths(written_lisa[j])
                      /\ written_lisa[j] =
                             DurationLine(VehicleIdx(written_lisa[j].vehicle),
                                          written_lisa[j].value)

====
